---- MODULE Spec2Model ----
(***************************************************************************)
(* The EIP-1559 transaction signer (app/src/main.rs and the modules it     *)
(* uses) as a state machine.  One behaviour is one run of main: the        *)
(* variables are main's local bindings, the standard output and the way    *)
(* the run ended; there is one action per statement of main.               *)
(*                                                                         *)
(* Text is a sequence of one-character strings, a byte string a sequence   *)
(* of numbers 0..255, and a U256/H256/H160 its big-endian byte string of   *)
(* 32, 32 and 20 bytes.                                                    *)
(***************************************************************************)
EXTENDS Integers, Sequences, FiniteSets, TLC

\* ------------------------------------------------------------------ bounds
\* Call data of 0..MaxDataBytes bytes is enumerated in every spelling.
MaxDataBytes == 2
\* Nonces 0..MaxNonce are enumerated as hex strings.
MaxNonce == 1
\* JSON numbers 0..MaxNumber are enumerated as decimal literals.
MaxNumber == 20
\* Hex texts of up to MaxHexDigits characters are enumerated.
MaxHexDigits == 3

\* ------------------------------------------------------- program constants
\* [u8; 32], the length of a private key.
KeyLen == 32
\* vec![0x02], the EIP-2718 type byte of an EIP-1559 transaction.
TypeTag == 2
\* The width of U256 and H256 in bytes, and of H160.
WordLen == 32
AddrLen == 20

\* -------------------------------------------------------------------- text
None == "None"

Rep(c, n) == [i \in 1..n |-> c]

HexLower == <<"0","1","2","3","4","5","6","7","8","9","a","b","c","d","e","f">>
HexUpper == <<"0","1","2","3","4","5","6","7","8","9","A","B","C","D","E","F">>

IsHexChar(c) == \E i \in 1..16 : HexLower[i] = c \/ HexUpper[i] = c

\* hex::val: the value of one hex digit, either case.
HexVal(c) == (CHOOSE i \in 1..16 : HexLower[i] = c \/ HexUpper[i] = c) - 1

\* str::strip_prefix("0x").unwrap_or(s): one leading "0x" is removed, a "0X"
\* is not.
StripPrefix0x(s) ==
    IF Len(s) >= 2 /\ s[1] = "0" /\ s[2] = "x" THEN SubSeq(s, 3, Len(s)) ELSE s

\* hex::decode: the length is checked first, then every pair of digits.
HexDecode(s) ==
    IF Len(s) % 2 # 0
    THEN [ok |-> FALSE, err |-> "OddLength", bytes |-> <<>>]
    ELSE IF \E i \in 1..Len(s) : ~IsHexChar(s[i])
    THEN [ok |-> FALSE, err |-> "InvalidHexCharacter", bytes |-> <<>>]
    ELSE [ok |-> TRUE, err |-> None,
          bytes |-> [i \in 1..(Len(s) \div 2) |->
                        16 * HexVal(s[2 * i - 1]) + HexVal(s[2 * i])]]

\* hex::encode: two lower-case digits per byte.
HexEncode(b) ==
    [i \in 1..(2 * Len(b)) |->
        IF i % 2 = 1 THEN HexLower[(b[(i + 1) \div 2] \div 16) + 1]
                     ELSE HexLower[(b[i \div 2] % 16) + 1]]

\* ------------------------------------------------------------------- bytes
Zeros(n) == Rep(0, n)

\* The bytes from the first one that is not zero on.
StripLeadingZeros(b) ==
    IF \A i \in 1..Len(b) : b[i] = 0 THEN <<>>
    ELSE LET first == CHOOSE i \in 1..Len(b) :
                          b[i] # 0 /\ \A j \in 1..(i - 1) : b[j] = 0
         IN  SubSeq(b, first, Len(b))

\* The minimal big-endian bytes of a machine integer (0 is the empty string).
RECURSIVE BeBytes(_)
BeBytes(n) == IF n = 0 THEN <<>> ELSE Append(BeBytes(n \div 256), n % 256)

\* The bytes b, left-padded with zeros to n bytes (b is at most n long).
PadLeft(b, n) == Zeros(n - Len(b)) \o b

\* a < b for two byte strings of one length, as big-endian integers.
BytesLess(a, b) ==
    \E i \in 1..Len(a) :
        /\ a[i] < b[i]
        /\ \A j \in 1..(i - 1) : a[j] = b[j]

\* --------------------------------------------------------------- JSON values
\* serde_json::Value, as far as the deserializers look at it.  A Number is
\* serde_json's N: PosInt(u64), NegInt(i64) or Float(f64); v holds a PosInt's
\* minimal big-endian bytes.  Absent stands for a key the object does not have.
JString(s) == [t |-> "String", s |-> s, k |-> None, v |-> <<>>]
JPosInt(v) == [t |-> "Number", s |-> <<>>, k |-> "PosInt", v |-> v]
JNegInt == [t |-> "Number", s |-> <<>>, k |-> "NegInt", v |-> <<>>]
JFloat == [t |-> "Number", s |-> <<>>, k |-> "Float", v |-> <<>>]
JNull == [t |-> "Null", s |-> <<>>, k |-> None, v |-> <<>>]
JBool == [t |-> "Bool", s |-> <<>>, k |-> None, v |-> <<>>]
JArray == [t |-> "Array", s |-> <<>>, k |-> None, v |-> <<>>]
Absent == [t |-> "Absent", s |-> <<>>, k |-> None, v |-> <<>>]

\* Decimal digits and the machine integer they spell.
Digits == <<"0","1","2","3","4","5","6","7","8","9">>

IsDigit(c) == \E i \in 1..10 : Digits[i] = c

RECURSIVE DecValue(_)
DecValue(s) ==
    IF s = <<>> THEN 0
    ELSE 10 * DecValue(SubSeq(s, 1, Len(s) - 1))
         + (CHOOSE i \in 1..10 : Digits[i] = s[Len(s)]) - 1

\* ------------------------------------------------- JSON text (serde_json)
\* A JSON value as written in the text: a number literal (sign, decimal
\* digits, and with form "exp" an exponent part e<exp>), a string, or one of
\* true, null, [] and {}.
NumberToken(neg, digits, form, exp) ==
    [kind |-> "number", neg |-> neg, digits |-> digits, form |-> form,
     exp |-> exp, s |-> <<>>]
StringToken(s) ==
    [kind |-> "string", neg |-> FALSE, digits |-> <<>>, form |-> None,
     exp |-> 0, s |-> s]
OtherToken(kind) ==
    [kind |-> kind, neg |-> FALSE, digits |-> <<>>, form |-> None,
     exp |-> 0, s |-> <<>>]

\* b * m + c for minimal big-endian bytes b and m, c below 256: the bytes
\* 1..i of b with the carry c coming in at byte i.
RECURSIVE MulAdd(_, _, _, _)
MulAdd(b, m, c, i) ==
    IF i = 0 THEN (IF c = 0 THEN <<>> ELSE <<c>>)
    ELSE LET x == b[i] * m + c
         IN  Append(MulAdd(b, m, x \div 256, i - 1), x % 256)

\* The minimal big-endian bytes of the integer the first n decimal digits
\* spell.
RECURSIVE DecBytes(_, _)
DecBytes(digits, n) ==
    IF n = 0 THEN <<>>
    ELSE LET hi == DecBytes(digits, n - 1)
         IN  MulAdd(hi, 10, DecValue(<<digits[n]>>), Len(hi))

\* The integer a number literal denotes when it is a non-negative integer:
\* its digits, followed by exp zeros.
TokenBytes(tok) ==
    LET all == tok.digits \o Rep("0", tok.exp) IN DecBytes(all, Len(all))

\* serde_json's number parser: an integer literal that fits u64 is a PosInt,
\* a negative one that fits i64 a NegInt; a literal with an exponent, and an
\* integer literal out of those ranges, is read as f64.
ParseNumber(tok) ==
    LET mag == DecBytes(tok.digits, Len(tok.digits))
    IN  IF tok.form = "exp" THEN JFloat
        ELSE IF ~tok.neg
        THEN (IF Len(mag) <= 8 THEN JPosInt(mag) ELSE JFloat)
        ELSE IF mag # <<>>
                /\ \/ Len(mag) < 8
                   \/ Len(mag) = 8 /\ mag[1] < 128
                   \/ mag = <<128>> \o Zeros(7)
        THEN JNegInt
        ELSE JFloat

\* serde_json::Value's Deserialize, from the text.
ParseValue(tok) ==
    CASE tok.kind = "number" -> ParseNumber(tok)
      [] tok.kind = "string" -> JString(tok.s)
      [] tok.kind = "true" -> JBool
      [] tok.kind = "null" -> JNull
      [] OTHER -> JArray

\* ------------------------------------------------------------------- de.rs
\* Number::as_u64: Some(n) for a PosInt, None for a NegInt or a Float.
as_u64(n) == IF n.k = "PosInt" THEN [some |-> TRUE, v |-> n.v]
                               ELSE [some |-> FALSE, v |-> <<>>]

\* U256::from(u64).
U256FromU64(v) == PadLeft(v, WordLen)

\* U256::from_str_radix(s, 16), if an odd number of digits were refused as
\* hex::decode refuses it.
U256FromStrRadix16EvenOnly(s) ==
    LET d == StripPrefix0x(s)
        r == HexDecode(d)
    IN  IF Len(d) > 2 * WordLen \/ ~r.ok
        THEN [ok |-> FALSE, val |-> <<>>]
        ELSE [ok |-> TRUE, val |-> PadLeft(r.bytes, WordLen)]

\* U256::from_str_radix(s, 16): an optional "0x", at most 64 digits, an odd
\* number of digits read as if a "0" led them.
U256FromStrRadix16(s) ==
    LET d == StripPrefix0x(s)
        e == IF Len(d) % 2 = 1 THEN <<"0">> \o d ELSE d
        r == HexDecode(e)
    IN  IF Len(d) > 2 * WordLen \/ ~r.ok
        THEN [ok |-> FALSE, val |-> <<>>]
        ELSE [ok |-> TRUE, val |-> PadLeft(r.bytes, WordLen)]

deserialize_u256(value) ==
    CASE value.t = "Number" ->
            LET n == as_u64(value)
            IN  [ok |-> TRUE,
                 val |-> U256FromU64(IF n.some THEN n.v ELSE <<>>)]
      [] value.t = "String" -> U256FromStrRadix16(value.s)
      [] OTHER -> [ok |-> FALSE, val |-> <<>>]

\* deserialize_hex_bytes, without the strip of the "0x" prefix.
deserialize_hex_bytes_unstripped(value) ==
    IF value.t # "String"
    THEN [ok |-> FALSE, val |-> <<>>]
    ELSE IF value.s = <<>>
         THEN [ok |-> TRUE, val |-> <<>>]
         ELSE LET r == HexDecode(value.s)
              IN  [ok |-> r.ok, val |-> r.bytes]

\* deserialize_hex_bytes, if an odd number of digits were read as if a "0"
\* led them.
deserialize_hex_bytes_padded(value) ==
    IF value.t # "String"
    THEN [ok |-> FALSE, val |-> <<>>]
    ELSE LET d == StripPrefix0x(value.s)
             r == HexDecode(IF Len(d) % 2 = 1 THEN <<"0">> \o d ELSE d)
         IN  [ok |-> r.ok, val |-> r.bytes]

deserialize_hex_bytes(value) ==
    IF value.t # "String"
    THEN [ok |-> FALSE, val |-> <<>>]
    ELSE LET trimmed_hex_string == StripPrefix0x(value.s)
         IN  IF trimmed_hex_string = <<>>
             THEN [ok |-> TRUE, val |-> <<>>]
             ELSE LET r == HexDecode(trimmed_hex_string)
                  IN  [ok |-> r.ok, val |-> r.bytes]

\* H160's Deserialize (impl-serde): a "0x" followed by exactly 40 hex digits.
DeserializeH160(value) ==
    IF value.t # "String" \/ Len(value.s) < 2
       \/ value.s[1] # "0" \/ value.s[2] # "x"
    THEN [ok |-> FALSE, val |-> <<>>]
    ELSE LET d == StripPrefix0x(value.s)
             r == HexDecode(d)
         IN  IF Len(d) # 2 * AddrLen \/ ~r.ok
             THEN [ok |-> FALSE, val |-> <<>>]
             ELSE [ok |-> TRUE, val |-> r.bytes]

\* --------------------------------------------------------------- params.rs
NoParams == [nonce |-> <<>>, to_address |-> <<>>, value |-> <<>>,
             gas_limit |-> <<>>, input |-> <<>>]

\* Params' derived Deserialize: the four required fields through their
\* deserializers; input is #[serde(default)], so an absent key gives
\* Vec::default() without calling deserialize_hex_bytes.
DeserializeParams(obj) ==
    LET nonce == deserialize_u256(obj.nonce)
        to_address == DeserializeH160(obj.to_address)
        value == deserialize_u256(obj.value)
        gas_limit == deserialize_u256(obj.gas_limit)
        input == IF obj.input = Absent THEN [ok |-> TRUE, val |-> <<>>]
                 ELSE deserialize_hex_bytes(obj.input)
    IN  IF nonce.ok /\ to_address.ok /\ value.ok /\ gas_limit.ok /\ input.ok
        THEN [ok |-> TRUE,
              val |-> [nonce |-> nonce.val, to_address |-> to_address.val,
                       value |-> value.val, gas_limit |-> gas_limit.val,
                       input |-> input.val]]
        ELSE [ok |-> FALSE, val |-> NoParams]

\* Params::from_path: read_to_string(path).unwrap(), then
\* serde_json::from_str(..).unwrap(): every failure is a panic.
\* A file is [kind: "Missing" | "NotJson" | "Object", obj].
ParamsFromPath(file) ==
    IF file.kind # "Object" THEN [panic |-> TRUE, val |-> NoParams]
    ELSE LET r == DeserializeParams(file.obj)
         IN  [panic |-> ~r.ok, val |-> r.val]

\* --------------------------------------------------------------- config.rs
NoConfig == [chain_id |-> 0, max_fee_per_gas |-> <<>>,
             max_priority_fee_per_gas |-> <<>>, private_key |-> <<>>]

\* An environment variable: unset, or set to a text.
Unset == [set |-> FALSE, s |-> <<>>]
Var(s) == [set |-> TRUE, s |-> s]

\* Config::from_env: the environment's variables deserialized into Config:
\* chain_id a decimal u64, the two fees through deserialize_u256 (the
\* environment source hands every value over as a string), private_key kept
\* as it is.  A variable that is unset or does not parse is a ConfigError.
ConfigFromEnv(env) ==
    LET fee == deserialize_u256(JString(env.max_fee_per_gas.s))
        tip == deserialize_u256(JString(env.max_priority_fee_per_gas.s))
    IN  IF \/ ~env.chain_id.set \/ ~env.max_fee_per_gas.set
           \/ ~env.max_priority_fee_per_gas.set \/ ~env.private_key.set
           \/ env.chain_id.s = <<>>
           \/ \E i \in 1..Len(env.chain_id.s) : ~IsDigit(env.chain_id.s[i])
           \/ ~fee.ok \/ ~tip.ok
        THEN [ok |-> FALSE, val |-> NoConfig]
        ELSE [ok |-> TRUE,
              val |-> [chain_id |-> DecValue(env.chain_id.s),
                       max_fee_per_gas |-> fee.val,
                       max_priority_fee_per_gas |-> tip.val,
                       private_key |-> env.private_key.s]]

\* get_private_key_bytes, without the strip of the "0x" prefix.
get_private_key_bytes_unstripped(private_key) ==
    LET decoded == HexDecode(private_key)
    IN  IF ~decoded.ok
        THEN [ok |-> FALSE, err |-> "FromHex", hexerr |-> decoded.err,
              len |-> 0, bytes |-> <<>>]
        ELSE IF Len(decoded.bytes) # KeyLen
        THEN [ok |-> FALSE, err |-> "InvalidPrivateKeyLength", hexerr |-> None,
              len |-> Len(decoded.bytes), bytes |-> <<>>]
        ELSE [ok |-> TRUE, err |-> None, hexerr |-> None,
              len |-> KeyLen, bytes |-> decoded.bytes]

\* get_private_key_bytes, reporting the length of the hex text in place of
\* the length of the decoded bytes.
get_private_key_bytes_text_length(private_key) ==
    LET hex_str == StripPrefix0x(private_key)
        decoded == HexDecode(hex_str)
    IN  IF ~decoded.ok
        THEN [ok |-> FALSE, err |-> "FromHex", hexerr |-> decoded.err,
              len |-> 0, bytes |-> <<>>]
        ELSE IF Len(decoded.bytes) # KeyLen
        THEN [ok |-> FALSE, err |-> "InvalidPrivateKeyLength", hexerr |-> None,
              len |-> Len(hex_str), bytes |-> <<>>]
        ELSE [ok |-> TRUE, err |-> None, hexerr |-> None,
              len |-> KeyLen, bytes |-> decoded.bytes]

\* get_private_key_bytes, checking the length of the text before decoding it.
get_private_key_bytes_length_first(private_key) ==
    LET hex_str == StripPrefix0x(private_key)
        decoded == HexDecode(hex_str)
    IN  IF Len(hex_str) # 2 * KeyLen
        THEN [ok |-> FALSE, err |-> "InvalidPrivateKeyLength", hexerr |-> None,
              len |-> Len(hex_str) \div 2, bytes |-> <<>>]
        ELSE IF ~decoded.ok
        THEN [ok |-> FALSE, err |-> "FromHex", hexerr |-> decoded.err,
              len |-> 0, bytes |-> <<>>]
        ELSE [ok |-> TRUE, err |-> None, hexerr |-> None,
              len |-> KeyLen, bytes |-> decoded.bytes]

\* Config::get_private_key_bytes: strip one "0x", hex::decode (its error is
\* Error::FromHex), then Vec<u8> -> [u8; 32] (its error is
\* Error::InvalidPrivateKeyLength(data.len())).
get_private_key_bytes(private_key) ==
    LET hex_str == StripPrefix0x(private_key)
        decoded == HexDecode(hex_str)
    IN  IF ~decoded.ok
        THEN [ok |-> FALSE, err |-> "FromHex", hexerr |-> decoded.err,
              len |-> 0, bytes |-> <<>>]
        ELSE IF Len(decoded.bytes) # KeyLen
        THEN [ok |-> FALSE, err |-> "InvalidPrivateKeyLength", hexerr |-> None,
              len |-> Len(decoded.bytes), bytes |-> <<>>]
        ELSE [ok |-> TRUE, err |-> None, hexerr |-> None,
              len |-> KeyLen, bytes |-> decoded.bytes]

\* --------------------------------------------------- RLP (rlp::encode)
\* A byte string: itself when it is one byte below 0x80, else 0x80+len and
\* the bytes, else 0xb7+len(len), the length and the bytes.
RlpBytes(b) ==
    IF Len(b) = 1 /\ b[1] < 128 THEN b
    ELSE IF Len(b) <= 55 THEN <<128 + Len(b)>> \o b
    ELSE LET l == BeBytes(Len(b)) IN <<183 + Len(l)>> \o l \o b

\* A list, given the concatenation of its encoded items.
RlpList(payload) ==
    IF Len(payload) <= 55 THEN <<192 + Len(payload)>> \o payload
    ELSE LET l == BeBytes(Len(payload)) IN <<247 + Len(l)>> \o l \o payload

\* u64 and U256: the big-endian bytes without leading zeros.
RlpU64(n) == RlpBytes(BeBytes(n))
\* U256, if it were encoded as its 32 bytes, leading zeros kept.
RlpU256Fixed(q) == RlpBytes(q)
RlpU256(q) == RlpBytes(StripLeadingZeros(q))
\* bool: the integer 0 or 1.
RlpBool(b) == RlpU64(IF b THEN 1 ELSE 0)
\* TransactionAction::Call(address): the 20 bytes.
RlpAction(a) == RlpBytes(a)
\* AccessList::default(): the empty list.
RlpAccessList(al) == RlpList(<<>>)

\* The nine items of EIP1559TransactionMessage, in the order of its
\* rlp_append.
MessageItems(m) ==
    RlpU64(m.chain_id) \o RlpU256(m.nonce)
    \o RlpU256(m.max_priority_fee_per_gas) \o RlpU256(m.max_fee_per_gas)
    \o RlpU256(m.gas_limit) \o RlpAction(m.action) \o RlpU256(m.value)
    \o RlpBytes(m.input) \o RlpAccessList(m.access_list)

\* rlp::encode(&EIP1559TransactionMessage): a list of nine.
RlpMessage(m) == RlpList(MessageItems(m))

\* rlp::encode(&EIP1559Transaction): the nine, then odd_y_parity, r and s
\* (r and s as U256::from_big_endian, so without leading zeros).
RlpTransaction(tx) ==
    RlpList(MessageItems(tx) \o RlpBool(tx.odd_y_parity)
            \o RlpU256(tx.r) \o RlpU256(tx.s))

\* ------------------------------------------------------------ cryptography
\* Keccak-256 and ECDSA over secp256k1 cannot be computed here; each is
\* replaced by a deterministic function of the same arguments with results of
\* the same shape.  Nothing below relies on their cryptographic strength.
RECURSIVE FoldRange(_, _, _)
FoldRange(b, lo, hi) ==
    IF lo > hi THEN 1
    ELSE IF lo = hi THEN b[lo] + 2
    ELSE LET mid == (lo + hi) \div 2
         IN  (FoldRange(b, lo, mid) * 31 + FoldRange(b, mid + 1, hi) * 17
              + hi) % 65521

Fold(b, acc) == (FoldRange(b, 1, Len(b)) * 7 + acc) % 65521

\* Keccak256::digest: 32 bytes, a function of the bytes hashed alone.
Keccak256(b) ==
    LET h == Fold(b, 7) IN [i \in 1..WordLen |-> (h * i + (h \div 256) + i) % 256]

\* EIP1559TransactionMessage::hash: keccak256(0x02 || rlp(message)).
HashPreimage(m) == <<TypeTag>> \o RlpMessage(m)
MessageHash(m) == Keccak256(HashPreimage(m))

\* The order n of secp256k1's group.
Secp256k1Order ==
    <<255,255,255,255,255,255,255,255,255,255,255,255,255,255,255,254,
      186,174,220,230,175,72,160,59,191,210,94,140,208,54,65,65>>

\* SigningKey::from_slice: Ok for 32 bytes that are a scalar in 1..n-1, Err
\* (signature::Error) for zero and for n and above.
SigningKeyFromSlice(bytes) ==
    /\ Len(bytes) = WordLen
    /\ bytes # Zeros(WordLen)
    /\ BytesLess(bytes, Secp256k1Order)

\* SigningKey::sign_prehash_recoverable: RFC 6979, so (r, s, recovery id) is a
\* function of the key and the prehash alone; r and s are 32 bytes each (r
\* with a leading zero byte now and then), s is in the lower half, the
\* recovery id is 0..3.
SignPrehashRecoverable(key, prehash) ==
    LET k == Fold(key \o prehash, 11)
    IN  [r |-> [i \in 1..WordLen |->
                  IF i = 1 THEN (IF k % 3 = 0 THEN 0 ELSE k % 256)
                  ELSE (k * i + 5) % 256],
         s |-> [i \in 1..WordLen |->
                  IF i = 1 THEN k % 128 ELSE (k * (i + 1) + 9) % 256],
         recovery_id |-> (k \div 7) % 4]

\* ---------------------------------------------------------------- main.rs
\* Lines 25-35: the unsigned message, from the configuration and the intent.
BuildMessage(cfg, prm) ==
    [chain_id |-> cfg.chain_id,
     nonce |-> prm.nonce,
     max_priority_fee_per_gas |-> cfg.max_priority_fee_per_gas,
     max_fee_per_gas |-> cfg.max_fee_per_gas,
     gas_limit |-> prm.gas_limit,
     action |-> prm.to_address,
     value |-> prm.value,
     input |-> prm.input,
     access_list |-> <<>>]

\* OddYParity, comparing the identifier with 1 in place of its lowest bit.
OddYParityIsOne(recovery_id) == recovery_id = 1

\* RecoveryId::to_byte() & 1 == 1.
OddYParity(recovery_id) == (recovery_id % 2) = 1

\* AssembleTransaction, with the two fee fields taken from each other.
AssembleFeesSwapped(m, sig) ==
    [chain_id |-> m.chain_id,
     nonce |-> m.nonce,
     max_priority_fee_per_gas |-> m.max_fee_per_gas,
     max_fee_per_gas |-> m.max_priority_fee_per_gas,
     gas_limit |-> m.gas_limit,
     action |-> m.action,
     value |-> m.value,
     input |-> m.input,
     access_list |-> m.access_list,
     odd_y_parity |-> (sig.recovery_id % 2) = 1,
     r |-> sig.r,
     s |-> sig.s]

\* Lines 49-63: the signed transaction, from the message and the signature.
AssembleTransaction(m, sig) ==
    [chain_id |-> m.chain_id,
     nonce |-> m.nonce,
     max_priority_fee_per_gas |-> m.max_priority_fee_per_gas,
     max_fee_per_gas |-> m.max_fee_per_gas,
     gas_limit |-> m.gas_limit,
     action |-> m.action,
     value |-> m.value,
     input |-> m.input,
     access_list |-> m.access_list,
     odd_y_parity |-> OddYParity(sig.recovery_id),
     r |-> sig.r,
     s |-> sig.s]

\* Lines 66-73: the type byte, then the RLP of the signed transaction.
EncodeSigned(tx) == <<TypeTag>> \o RlpTransaction(tx)

\* Line 76: format!("0x{}", hex::encode(signed_transaction)).
OutputLine(bytes) == <<"0", "x">> \o HexEncode(bytes)

NoMessage == [chain_id |-> 0, nonce |-> <<>>, max_priority_fee_per_gas |-> <<>>,
              max_fee_per_gas |-> <<>>, gas_limit |-> <<>>, action |-> <<>>,
              value |-> <<>>, input |-> <<>>, access_list |-> <<>>]
NoTransaction ==
    [chain_id |-> 0, nonce |-> <<>>, max_priority_fee_per_gas |-> <<>>,
     max_fee_per_gas |-> <<>>, gas_limit |-> <<>>, action |-> <<>>,
     value |-> <<>>, input |-> <<>>, access_list |-> <<>>,
     odd_y_parity |-> FALSE, r |-> <<>>, s |-> <<>>]
NoSignature == [r |-> <<>>, s |-> <<>>, recovery_id |-> 0]
NoError == [kind |-> None, detail |-> None, len |-> 0]

\* ------------------------------------------------------------------ inputs
\* The private key of the repository's tests, and the address of its tests.
TestKey ==
    <<"a","c","0","9","7","4","b","e","c","3","9","a","1","7","e","3","6","b","a","4","a","6","b","4","d","2","3","8","f","f","9","4","4","b","a","c","b","4","7","8","c","b","e","d","5","e","f","c","a","e","7","8","4","d","7","b","f","4","f","2","f","f","8","0">>
TestKeyUpper ==
    <<"A","C","0","9","7","4","B","E","C","3","9","A","1","7","E","3","6","B","A","4","A","6","B","4","D","2","3","8","F","F","9","4","4","B","A","C","B","4","7","8","C","B","E","D","5","E","F","C","A","E","7","8","4","D","7","B","F","4","F","2","F","F","8","0">>
TestAddress ==
    <<"7","4","2","d","3","5","C","c","6","6","3","4","C","0","5","3","2","9","2","5","a","3","b","8","D","2","f","8","e","0","C","4","e","D","2","d","1","1","D","f">>
InvalidHexString ==
    <<"i","n","v","a","l","i","d","_","h","e","x","_","s","t","r","i","n","g">>
\* The test key with its last digit replaced by a letter that is no digit.
TestKeyBadDigit == SubSeq(TestKey, 1, 63) \o <<"g">>

OrderMinusOne == [Secp256k1Order EXCEPT ![WordLen] = 64]
OrderPlusOne == [Secp256k1Order EXCEPT ![WordLen] = 66]

\* The texts PRIVATE_KEY is drawn from, before a prefix is put in front:
\* valid keys, 32 bytes that are no valid scalar, wrong lengths, texts that
\* are no hex.
KeyBodies ==
    { TestKey, TestKeyUpper,
      Rep("0", 63) \o <<"1">>, HexEncode(OrderMinusOne),
      Rep("0", 64), Rep("f", 64), HexEncode(Secp256k1Order),
      HexEncode(OrderPlusOne),
      SubSeq(TestKey, 1, 62), TestKey \o <<"f", "f">>, <<>>,
      SubSeq(TestKey, 1, 63),
      InvalidHexString, TestKeyBadDigit,
      SubSeq(TestKeyBadDigit, 2, 64), SubSeq(TestKeyBadDigit, 3, 64) }

KeyPrefixes == { <<>>, <<"0", "x">>, <<"0", "X">> }

KeyTexts == { pre \o body : pre \in KeyPrefixes, body \in KeyBodies }

Gwei2 == <<"0","x","7","7","3","5","9","4","0","0">>
Gwei1 == <<"0","x","3","b","9","a","c","a","0","0">>

\* Two network profiles: mainnet with the fees of the tests, Sepolia with
\* zero fees.
Profiles ==
    { [chain_id |-> Var(<<"1">>), max_fee_per_gas |-> Var(Gwei2),
       max_priority_fee_per_gas |-> Var(Gwei1)],
      [chain_id |-> Var(<<"1","1","1","5","5","1","1","1">>),
       max_fee_per_gas |-> Var(<<"0">>),
       max_priority_fee_per_gas |-> Var(<<"0","x","0">>)] }

EnvOf(pr, key) ==
    [chain_id |-> pr.chain_id, max_fee_per_gas |-> pr.max_fee_per_gas,
     max_priority_fee_per_gas |-> pr.max_priority_fee_per_gas,
     private_key |-> key]

BaseEnv == EnvOf(CHOOSE pr \in Profiles : pr.chain_id = Var(<<"1">>), Var(TestKey))

GoodEnvs == { EnvOf(pr, Var(k)) : pr \in Profiles, k \in KeyTexts }

BadEnvs ==
    { [BaseEnv EXCEPT !.chain_id = Unset],
      [BaseEnv EXCEPT !.chain_id = Var(<<"x">>)],
      [BaseEnv EXCEPT !.max_fee_per_gas = Var(<<"0","x","i","n","v">>)],
      [BaseEnv EXCEPT !.max_priority_fee_per_gas = Unset],
      [BaseEnv EXCEPT !.private_key = Unset] }

Envs == GoodEnvs \cup BadEnvs

\* Call data of n bytes, as hex digits: a9 05 9c bb a9 05 ...
SelectorDigits == <<"a","9","0","5","9","c","b","b">>
DataDigits(n) == [i \in 1..(2 * n) |-> SelectorDigits[((i - 1) % 8) + 1]]
DataDigitsUpper(n) ==
    [i \in 1..(2 * n) |->
        HexUpper[HexVal(SelectorDigits[((i - 1) % 8) + 1]) + 1]]

\* The spellings of empty call data.
EmptySpellings == { Absent, JString(<<>>), JString(<<"0", "x">>) }

\* The values of "input": absent, every length up to MaxDataBytes with and
\* without the prefix and in upper case, and 60 bytes (a long RLP string).
GoodInputs ==
    {Absent}
    \cup { JString(<<"0", "x">> \o DataDigits(n)) : n \in 0..MaxDataBytes }
    \cup { JString(DataDigits(n)) : n \in 0..MaxDataBytes }
    \cup { JString(<<"0", "x">> \o DataDigitsUpper(MaxDataBytes)),
           JString(<<"0", "x">> \o DataDigits(60)) }

GoodNonces ==
    { JString(<<"0", "x", HexLower[n + 1]>>) : n \in 0..MaxNonce }
    \cup { JString(Rep("f", 64)) }

ZeroAddress == <<"0", "x">> \o Rep("0", 40)

BaseObject ==
    [nonce |-> JString(<<"0", "x", "0">>),
     to_address |-> JString(ZeroAddress),
     value |-> JString(<<"0", "x", "0">>),
     gas_limit |-> JString(<<"0","x","5","2","0","8">>),
     input |-> Absent]

GoodObjects ==
    { [BaseObject EXCEPT !.nonce = n, !.input = d] :
        n \in GoodNonces, d \in GoodInputs }
    \cup { [BaseObject EXCEPT !.to_address = JString(<<"0", "x">> \o TestAddress),
                              !.value = v] :
             v \in { JPosInt(<<82, 8>>), JFloat, JNegInt,
                     JString(<<"d","e","0","b","6","b","3","a","7","6","4","0","0","0","0">>) } }

BadObjects ==
    { [BaseObject EXCEPT !.gas_limit = Absent],
      [BaseObject EXCEPT !.nonce = JString(InvalidHexString)],
      [BaseObject EXCEPT !.nonce = JBool],
      [BaseObject EXCEPT !.value = JNull],
      [BaseObject EXCEPT !.to_address = JString(<<"0", "x">> \o InvalidHexString)],
      [BaseObject EXCEPT !.to_address = JString(TestAddress)],
      [BaseObject EXCEPT !.input = JString(<<"0","x","1","2","3">>)],
      [BaseObject EXCEPT !.input = JString(<<"0","x","g","g">>)],
      [BaseObject EXCEPT !.input = JArray] }

\* The parameter file named by the first argument: not there, not JSON, or a
\* JSON object.
Files ==
    { [kind |-> "Missing", obj |-> BaseObject],
      [kind |-> "NotJson", obj |-> BaseObject] }
    \cup { [kind |-> "Object", obj |-> o] : o \in GoodObjects \cup BadObjects }

\* std::env::args().nth(1): None, or the path of a file.
NoArg == [present |-> FALSE, file |-> [kind |-> "Missing", obj |-> BaseObject]]
Args == {NoArg} \cup { [present |-> TRUE, file |-> f] : f \in Files }

\* The inputs of the deserializers called on their own.
\* The decimal digits of a machine integer.
RECURSIVE DecDigits(_)
DecDigits(n) ==
    IF n < 10 THEN <<Digits[n + 1]>>
    ELSE Append(DecDigits(n \div 10), Digits[(n % 10) + 1])

U64MaxDigits ==
    <<"1","8","4","4","6","7","4","4","0","7","3","7","0","9","5","5","1","6","1","5">>
TwoTo64Digits ==
    <<"1","8","4","4","6","7","4","4","0","7","3","7","0","9","5","5","1","6","1","6">>
SafeIntegerDigits ==
    <<"9","0","0","7","1","9","9","2","5","4","7","4","0","9","9","1">>
I64MinDigits ==
    <<"9","2","2","3","3","7","2","0","3","6","8","5","4","7","7","5","8","0","8">>

NumberDigits ==
    { DecDigits(n) : n \in 0..MaxNumber }
    \cup { DecDigits(255), DecDigits(21000), DecDigits(2000000000),
           SafeIntegerDigits, U64MaxDigits, TwoTo64Digits, I64MinDigits }

NumberTokens ==
    { NumberToken(neg, d, "int", 0) : neg \in BOOLEAN, d \in NumberDigits }
    \cup { NumberToken(FALSE, d, "exp", e) :
             d \in { DecDigits(n) : n \in 0..MaxNumber }, e \in {0, 3} }

\* Every text of up to n characters over the alphabet.
RECURSIVE TextsUpTo(_, _)
TextsUpTo(alphabet, n) ==
    IF n = 0 THEN { <<>> }
    ELSE LET shorter == TextsUpTo(alphabet, n - 1)
         IN  shorter \cup { Append(s, c) : s \in shorter, c \in alphabet }

HexAlphabet == { "0", "1", "a", "F", "g" }

\* Hex texts: every text of up to MaxHexDigits characters of the alphabet
\* (which holds one character that is no digit), the texts of the tests, and
\* long ones: 63, 64 and 65 digits, the test key in both cases, 100 bytes of
\* ab.
HexBodies ==
    TextsUpTo(HexAlphabet, MaxHexDigits)
    \cup { Rep("f", 63), Rep("f", 64), Rep("f", 65), TestKey, TestKeyUpper,
           TestKeyBadDigit, Rep("0", 63) \o <<"1">>, DataDigits(100),
           InvalidHexString, <<"1", "2", "3", "4">>, <<"a", "b", "c", "d">>,
           <<"A", "b", "C", "d">>, <<"A", "B", "C", "D">>,
           <<"i", "n", "v", "a", "l", "i", "d">> }

HexTexts == { pre \o body : pre \in KeyPrefixes, body \in HexBodies }

U256Tokens ==
    NumberTokens
    \cup { StringToken(s) : s \in HexTexts }
    \cup { OtherToken(k) : k \in {"true", "null", "array", "object"} }

HexBytesTokens ==
    { StringToken(s) : s \in HexTexts }
    \cup { OtherToken(k) : k \in {"true", "null", "array", "object"} }
    \cup { NumberToken(FALSE, <<"1">>, "int", 0) }

NoCall == [fn |-> None, tok |-> OtherToken("null")]
NoOutput == [ok |-> FALSE, val |-> <<>>]

\* ------------------------------------------------------------------- state
VARIABLES
    pc,                  \* the statement of main that runs next, or how it ended
    env,                 \* the environment Config::from_env read
    argv,                \* the first command-line argument and its file
    config,              \* let config
    params,              \* let params
    transaction_message, \* let transaction_message
    hashed,              \* the bytes given to Keccak-256 by hash()
    transaction_hash,    \* let transaction_hash
    private_key_bytes,   \* let private_key_bytes
    signed_prehash,      \* the bytes given to sign_prehash_recoverable
    signature,           \* let (signature, recovery_id)
    transaction,         \* let transaction
    signed_transaction,  \* let signed_transaction
    stdout,              \* the lines written to standard output
    error,               \* the Err main returned
    stages,              \* the pipeline stages completed, in order
    de_input,            \* a deserializer called on its own: which, on what
    de_output,           \* and what it returned
    run,                 \* 1 in a run of the program, 2 in the run after it
    first                \* in run 2: the inputs and the results of run 1

vars == <<pc, env, argv, config, params, transaction_message, hashed,
          transaction_hash, private_key_bytes, signed_prehash, signature,
          transaction, signed_transaction, stdout, error, stages,
          de_input, de_output, run, first>>

\* What a run is given.  The first run of the program is given any of the
\* inputs; the run after it is given what the first was given: the .env
\* file it found, its environment and its argument.
NoFirst == [env |-> BaseEnv, argv |-> NoArg, transaction_hash |-> <<>>,
            signature |-> NoSignature, signed_transaction |-> <<>>,
            stdout |-> <<>>]
FoundOfRun == IF run = 1 THEN BOOLEAN ELSE {TRUE}
EnvsOfRun == IF run = 1 THEN Envs ELSE {first.env}
ArgsOfRun == IF run = 1 THEN Args ELSE {first.argv}

Init ==
    /\ pc = "dotenv"
    /\ env = BaseEnv
    /\ argv = NoArg
    /\ config = NoConfig
    /\ params = NoParams
    /\ transaction_message = NoMessage
    /\ hashed = <<>>
    /\ transaction_hash = <<>>
    /\ private_key_bytes = <<>>
    /\ signed_prehash = <<>>
    /\ signature = NoSignature
    /\ transaction = NoTransaction
    /\ signed_transaction = <<>>
    /\ stdout = <<>>
    /\ error = NoError
    /\ stages = <<>>
    /\ de_input = NoCall
    /\ de_output = NoOutput
    /\ run = 1
    /\ first = NoFirst

\* main returns Err(e): nothing else changes.
Fail(kind, detail, len) ==
    /\ pc' = "failed"
    /\ error' = [kind |-> kind, detail |-> detail, len |-> len]

\* Line 13: dotenv::dotenv()?, which is an Err when there is no .env file.
Dotenv ==
    /\ pc = "dotenv"
    /\ UNCHANGED <<de_input, de_output, run, first>>
    /\ \E found \in FoundOfRun :
        IF found THEN pc' = "from_env" /\ UNCHANGED error
        ELSE Fail("Dotenv", None, 0)
    /\ UNCHANGED <<env, argv, config, params, transaction_message, hashed,
                   transaction_hash, private_key_bytes, signed_prehash,
                   signature, transaction, signed_transaction, stdout, stages>>

\* Line 16: Config::from_env()?.
FromEnv ==
    /\ pc = "from_env"
    /\ UNCHANGED <<de_input, de_output, run, first>>
    /\ \E e \in EnvsOfRun :
        LET r == ConfigFromEnv(e)
        IN  /\ env' = e
            /\ IF r.ok
               THEN pc' = "from_path" /\ config' = r.val /\ UNCHANGED error
               ELSE Fail("Config", None, 0) /\ UNCHANGED config
    /\ UNCHANGED <<argv, params, transaction_message, hashed,
                   transaction_hash, private_key_bytes, signed_prehash,
                   signature, transaction, signed_transaction, stdout, stages>>

\* Lines 19-22: args().nth(1).expect(..), then Params::from_path, which
\* unwraps: a missing argument, an unreadable file and a file that does not
\* deserialize all panic.
FromPath ==
    /\ pc = "from_path"
    /\ UNCHANGED <<de_input, de_output, run, first>>
    /\ \E a \in ArgsOfRun :
        LET r == ParamsFromPath(a.file)
        IN  /\ argv' = a
            /\ IF a.present /\ ~r.panic
               THEN pc' = "build" /\ params' = r.val
               ELSE pc' = "panicked" /\ UNCHANGED params
    /\ UNCHANGED <<env, config, transaction_message, hashed,
                   transaction_hash, private_key_bytes, signed_prehash,
                   signature, transaction, signed_transaction, stdout, error,
                   stages>>

\* Lines 25-35.
Build ==
    /\ pc = "build"
    /\ UNCHANGED <<de_input, de_output, run, first>>
    /\ transaction_message' = BuildMessage(config, params)
    /\ stages' = Append(stages, "Built")
    /\ pc' = "hash"
    /\ UNCHANGED <<env, argv, config, params, hashed, transaction_hash,
                   private_key_bytes, signed_prehash, signature, transaction,
                   signed_transaction, stdout, error>>

\* Hash, with the digest also written to standard output.
HashPrintsDigest ==
    /\ pc = "hash"
    /\ UNCHANGED <<de_input, de_output, run, first>>
    /\ hashed' = HashPreimage(transaction_message)
    /\ transaction_hash' = MessageHash(transaction_message)
    /\ stdout' = Append(stdout, OutputLine(MessageHash(transaction_message)))
    /\ stages' = Append(stages, "Hashed")
    /\ pc' = "get_private_key_bytes"
    /\ UNCHANGED <<env, argv, config, params, transaction_message,
                   private_key_bytes, signed_prehash, signature, transaction,
                   signed_transaction, error>>

\* Line 38: transaction_message.hash().
Hash ==
    /\ pc = "hash"
    /\ UNCHANGED <<de_input, de_output, run, first>>
    /\ hashed' = HashPreimage(transaction_message)
    /\ transaction_hash' = MessageHash(transaction_message)
    /\ stages' = Append(stages, "Hashed")
    /\ pc' = "get_private_key_bytes"
    /\ UNCHANGED <<env, argv, config, params, transaction_message,
                   private_key_bytes, signed_prehash, signature, transaction,
                   signed_transaction, stdout, error>>

\* Line 41: config.get_private_key_bytes()?.
GetPrivateKeyBytes ==
    /\ pc = "get_private_key_bytes"
    /\ UNCHANGED <<de_input, de_output, run, first>>
    /\ LET r == get_private_key_bytes(config.private_key)
       IN  IF r.ok
           THEN /\ private_key_bytes' = r.bytes
                /\ pc' = "signing_key"
                /\ UNCHANGED error
           ELSE /\ Fail(r.err, r.hexerr, r.len)
                /\ UNCHANGED private_key_bytes
    /\ UNCHANGED <<env, argv, config, params, transaction_message, hashed,
                   transaction_hash, signed_prehash, signature, transaction,
                   signed_transaction, stdout, stages>>

\* NewSigningKey, with unwrap() in place of the question mark.
NewSigningKeyUnwrap ==
    /\ pc = "signing_key"
    /\ UNCHANGED <<de_input, de_output, run, first>>
    /\ pc' = IF SigningKeyFromSlice(private_key_bytes) THEN "sign"
             ELSE "panicked"
    /\ UNCHANGED <<env, argv, config, params, transaction_message, hashed,
                   transaction_hash, private_key_bytes, signed_prehash,
                   signature, transaction, signed_transaction, stdout, error,
                   stages>>

\* Line 43: SigningKey::from_slice(&private_key_bytes)?.
NewSigningKey ==
    /\ pc = "signing_key"
    /\ UNCHANGED <<de_input, de_output, run, first>>
    /\ IF SigningKeyFromSlice(private_key_bytes)
       THEN pc' = "sign" /\ UNCHANGED error
       ELSE Fail("Ecdsa", None, 0)
    /\ UNCHANGED <<env, argv, config, params, transaction_message, hashed,
                   transaction_hash, private_key_bytes, signed_prehash,
                   signature, transaction, signed_transaction, stdout, stages>>

\* Sign, going back to hash the message again after the first signature.
SignThenRehash ==
    /\ pc = "sign"
    /\ UNCHANGED <<de_input, de_output, run, first>>
    /\ signed_prehash' = transaction_hash
    /\ signature' = SignPrehashRecoverable(private_key_bytes, transaction_hash)
    /\ stages' = Append(stages, "Signed")
    /\ pc' = IF signature = NoSignature THEN "hash" ELSE "assemble"
    /\ UNCHANGED <<env, argv, config, params, transaction_message, hashed,
                   transaction_hash, private_key_bytes, transaction,
                   signed_transaction, stdout, error>>

\* Sign, over the hash of the message's RLP without the type byte.
SignUntaggedHash ==
    /\ pc = "sign"
    /\ UNCHANGED <<de_input, de_output, run, first>>
    /\ signed_prehash' = Keccak256(RlpMessage(transaction_message))
    /\ signature' = SignPrehashRecoverable(
                        private_key_bytes,
                        Keccak256(RlpMessage(transaction_message)))
    /\ stages' = Append(stages, "Signed")
    /\ pc' = "assemble"
    /\ UNCHANGED <<env, argv, config, params, transaction_message, hashed,
                   transaction_hash, private_key_bytes, transaction,
                   signed_transaction, stdout, error>>

\* Sign, if the per-signature nonce were drawn afresh instead of derived from
\* the key and the prehash.
SignFreshNonce ==
    /\ pc = "sign"
    /\ UNCHANGED <<de_input, de_output, run, first>>
    /\ signed_prehash' = transaction_hash
    /\ \E nonce \in {0, 1} :
        LET sig == SignPrehashRecoverable(private_key_bytes, transaction_hash)
        IN  signature' = IF nonce = 0 THEN sig
                         ELSE [sig EXCEPT !.r = Keccak256(sig.r)]
    /\ stages' = Append(stages, "Signed")
    /\ pc' = "assemble"
    /\ UNCHANGED <<env, argv, config, params, transaction_message, hashed,
                   transaction_hash, private_key_bytes, transaction,
                   signed_transaction, stdout, error>>

\* Line 46: signing_key.sign_prehash_recoverable(&transaction_hash.0)?.  With
\* a 32-byte prehash and a valid key its Err has negligible probability and
\* is left out.
Sign ==
    /\ pc = "sign"
    /\ UNCHANGED <<de_input, de_output, run, first>>
    /\ signed_prehash' = transaction_hash
    /\ signature' = SignPrehashRecoverable(private_key_bytes, transaction_hash)
    /\ stages' = Append(stages, "Signed")
    /\ pc' = "assemble"
    /\ UNCHANGED <<env, argv, config, params, transaction_message, hashed,
                   transaction_hash, private_key_bytes, transaction,
                   signed_transaction, stdout, error>>

\* Lines 49-63.
Assemble ==
    /\ pc = "assemble"
    /\ UNCHANGED <<de_input, de_output, run, first>>
    /\ transaction' = AssembleTransaction(transaction_message, signature)
    /\ stages' = Append(stages, "Assembled")
    /\ pc' = "encode"
    /\ UNCHANGED <<env, argv, config, params, transaction_message, hashed,
                   transaction_hash, private_key_bytes, signed_prehash,
                   signature, signed_transaction, stdout, error>>

\* Lines 66-73.
Encode ==
    /\ pc = "encode"
    /\ UNCHANGED <<de_input, de_output, run, first>>
    /\ signed_transaction' = EncodeSigned(transaction)
    /\ stages' = Append(stages, "Encoded")
    /\ pc' = "println"
    /\ UNCHANGED <<env, argv, config, params, transaction_message, hashed,
                   transaction_hash, private_key_bytes, signed_prehash,
                   signature, transaction, stdout, error>>

\* Lines 76-78: println!, then Ok(()).
Println ==
    /\ pc = "println"
    /\ UNCHANGED <<de_input, de_output, run, first>>
    /\ stdout' = Append(stdout, OutputLine(signed_transaction))
    /\ pc' = "done"
    /\ UNCHANGED <<env, argv, config, params, transaction_message, hashed,
                   transaction_hash, private_key_bytes, signed_prehash,
                   signature, transaction, signed_transaction, error, stages>>

Next ==
    \/ Dotenv
    \/ FromEnv
    \/ FromPath
    \/ Build
    \/ Hash
    \/ GetPrivateKeyBytes
    \/ NewSigningKey
    \/ Sign
    \/ Assemble
    \/ Encode
    \/ Println

Spec == Init /\ [][Next]_vars

\* de.rs lines 39-49, test_deserialize_u256_from_json: the JSON text is read
\* as a serde_json::Value and handed to deserialize_u256.
CallDeserializeU256 ==
    /\ de_input = NoCall
    /\ \E tok \in U256Tokens :
        /\ de_input' = [fn |-> "deserialize_u256", tok |-> tok]
        /\ de_output' = deserialize_u256(ParseValue(tok))
    /\ UNCHANGED <<pc, env, argv, config, params, transaction_message, hashed,
                   transaction_hash, private_key_bytes, signed_prehash,
                   signature, transaction, signed_transaction, stdout, error,
                   stages, run, first>>

\* de.rs lines 51-63, test_deserialize_hex_bytes_from_json.
CallDeserializeHexBytes ==
    /\ de_input = NoCall
    /\ \E tok \in HexBytesTokens :
        /\ de_input' = [fn |-> "deserialize_hex_bytes", tok |-> tok]
        /\ de_output' = deserialize_hex_bytes(ParseValue(tok))
    /\ UNCHANGED <<pc, env, argv, config, params, transaction_message, hashed,
                   transaction_hash, private_key_bytes, signed_prehash,
                   signature, transaction, signed_transaction, stdout, error,
                   stages, run, first>>

NextDe ==
    \/ CallDeserializeU256
    \/ CallDeserializeHexBytes

\* The deserializers of de.rs, each called once on one JSON value.
SpecDe == Init /\ [][NextDe]_vars

\* The program is run again after a run that printed a transaction: a new
\* process, in which every variable of main starts afresh.  main writes no
\* file and keeps nothing; what the first run was given and what it produced
\* is kept in first, for comparison only.
Restart ==
    /\ pc = "done"
    /\ run = 1
    /\ run' = 2
    /\ first' = [env |-> env, argv |-> argv,
                 transaction_hash |-> transaction_hash,
                 signature |-> signature,
                 signed_transaction |-> signed_transaction,
                 stdout |-> stdout]
    /\ pc' = "dotenv"
    /\ env' = BaseEnv
    /\ argv' = NoArg
    /\ config' = NoConfig
    /\ params' = NoParams
    /\ transaction_message' = NoMessage
    /\ hashed' = <<>>
    /\ transaction_hash' = <<>>
    /\ private_key_bytes' = <<>>
    /\ signed_prehash' = <<>>
    /\ signature' = NoSignature
    /\ transaction' = NoTransaction
    /\ signed_transaction' = <<>>
    /\ stdout' = <<>>
    /\ error' = NoError
    /\ stages' = <<>>
    /\ UNCHANGED <<de_input, de_output>>

NextTwoRuns ==
    \/ Next
    \/ Restart

\* Two runs of the program, one after the other, on the same inputs.
SpecTwoRuns == Init /\ [][NextTwoRuns]_vars

\* ================================================================== claims
StageOrder == <<"Built", "Hashed", "Signed", "Assembled", "Encoded">>

IsPrefix(a, b) == Len(a) <= Len(b) /\ a = SubSeq(b, 1, Len(a))

\* The encoded items of an RLP list, given its encoding (the header removed).
ListPayload(enc) ==
    IF enc[1] <= 247 THEN SubSeq(enc, 2, Len(enc))
    ELSE SubSeq(enc, 2 + (enc[1] - 247), Len(enc))

\* C1: the output line is written at most once, and only by a run in which
\* every stage has succeeded: it is then the one line "0x" + hex of the signed
\* transaction, written after all five stages, with no error; a run that
\* failed or panicked has written nothing.
C1_OutputOnlyAfterSuccess ==
    /\ Len(stdout) <= 1
    /\ stdout # <<>> =>
          /\ pc = "done"
          /\ error = NoError
          /\ stages = StageOrder
          /\ private_key_bytes # <<>>
          /\ signature # NoSignature
          /\ stdout[1] = OutputLine(signed_transaction)
    /\ pc \in {"failed", "panicked"} => stdout = <<>>
    /\ pc = "done" => Len(stdout) = 1

C1_Witness ==
    /\ pc = "done"
    /\ Len(stdout) = 1
    /\ stages = StageOrder

\* C2: the stages completed so far are always an initial part of
\* Built, Hashed, Signed, Assembled, Encoded (so none is entered early, twice
\* or again after a later one), and a run that ends well has completed all.
C2_StagesInOrder ==
    /\ IsPrefix(stages, StageOrder)
    /\ pc = "done" => stages = StageOrder
    /\ transaction_hash # <<>> => Len(stages) >= 2
    /\ signature # NoSignature => Len(stages) >= 3
    /\ transaction # NoTransaction => Len(stages) >= 4
    /\ signed_transaction # <<>> => Len(stages) = 5

C2_Witness ==
    /\ pc = "encode"
    /\ stages = <<"Built", "Hashed", "Signed", "Assembled">>

\* C3: the bytes hashed are the type byte and the RLP list of exactly the nine
\* fields of the unsigned message, they are hashed while no signature exists,
\* and the signing call is given that digest and nothing else of the message.
C3_DigestOfUnsignedFields ==
    /\ hashed # <<>> =>
          /\ hashed = <<TypeTag>> \o RlpList(
                 RlpU64(config.chain_id) \o RlpU256(params.nonce)
                 \o RlpU256(config.max_priority_fee_per_gas)
                 \o RlpU256(config.max_fee_per_gas)
                 \o RlpU256(params.gas_limit) \o RlpBytes(params.to_address)
                 \o RlpU256(params.value) \o RlpBytes(params.input)
                 \o <<192>>)
          /\ transaction_hash = Keccak256(hashed)
    /\ hashed = <<>> => signature = NoSignature /\ signed_prehash = <<>>
    /\ pc = "get_private_key_bytes" => signature = NoSignature
    /\ signature # NoSignature =>
          /\ signed_prehash = transaction_hash
          /\ signed_prehash = Keccak256(hashed)
          /\ signature = SignPrehashRecoverable(private_key_bytes, signed_prehash)

C3_Witness ==
    /\ pc = "assemble"
    /\ signature # NoSignature
    /\ params.input # <<>>

\* C4: on success the output bytes are the byte 0x02, the same tag as in the
\* hashed bytes, followed by an RLP list whose items are the nine encoded
\* items of the hashed message, unchanged and in order, then the recovery
\* flag, r and s of the signing call.
C4_SignedLayout ==
    signed_transaction # <<>> =>
        /\ signed_transaction[1] = 2
        /\ signed_transaction[1] = hashed[1]
        /\ Tail(signed_transaction)
             = RlpList(ListPayload(Tail(signed_transaction)))
        /\ ListPayload(Tail(signed_transaction))
             = ListPayload(Tail(hashed))
               \o RlpBool(signature.recovery_id % 2 = 1)
               \o RlpU256(signature.r) \o RlpU256(signature.s)

C4_Witness ==
    /\ pc = "done"
    /\ signed_transaction # <<>>
    /\ config.max_fee_per_gas # config.max_priority_fee_per_gas
    /\ signature.r[1] = 0

\* get_private_key_bytes has been called in this run.
KeyDecodeDone == Len(stages) >= 2 /\ pc # "get_private_key_bytes"

IsHex64(h) == Len(h) = 64 /\ \A i \in 1..Len(h) : IsHexChar(h[i])

WellFormedHex(s) == Len(s) % 2 = 0 /\ \A i \in 1..Len(s) : IsHexChar(s[i])

ToLowerHex(h) == [i \in 1..Len(h) |-> HexLower[HexVal(h[i]) + 1]]

HasPrefix0x(p) == Len(p) >= 2 /\ p[1] = "0" /\ p[2] = "x"

\* The private key's text after an optional "0x".
KeyBody == IF HasPrefix0x(config.private_key)
           THEN SubSeq(config.private_key, 3, Len(config.private_key))
           ELSE config.private_key

\* C5: when the private key is h or "0x" + h for 64 hex digits h, the key
\* decoding succeeds with 32 bytes that spell h in order (their hex text is h
\* in lower case), and h and "0x" + h decode to the same bytes.
C5_KeyBytesOfHex64 ==
    (KeyDecodeDone /\ IsHex64(KeyBody)) =>
        /\ Len(private_key_bytes) = 32
        /\ HexEncode(private_key_bytes) = ToLowerHex(KeyBody)
        /\ \A i \in 1..32 :
              private_key_bytes[i]
                = 16 * HexVal(KeyBody[2 * i - 1]) + HexVal(KeyBody[2 * i])
        /\ ~(pc = "failed"
             /\ error.kind \in {"FromHex", "InvalidPrivateKeyLength"})
        /\ get_private_key_bytes(KeyBody).ok
        /\ get_private_key_bytes(<<"0", "x">> \o KeyBody).ok
        /\ get_private_key_bytes(KeyBody).bytes = private_key_bytes
        /\ get_private_key_bytes(<<"0", "x">> \o KeyBody).bytes
             = private_key_bytes

C5_Witness ==
    /\ KeyDecodeDone
    /\ config.private_key = <<"0", "x">> \o TestKeyUpper
    /\ private_key_bytes[1] = 172
    /\ private_key_bytes[32] = 128

\* C6: when the private key's text (after an optional "0x") is well-formed
\* hex of n bytes, n other than 32, the run fails at the key decoding with
\* the key-length error carrying n, and no key bytes exist.
C6_LengthMismatchCarriesByteCount ==
    (KeyDecodeDone /\ WellFormedHex(KeyBody) /\ Len(KeyBody) # 64) =>
        /\ pc = "failed"
        /\ error.kind = "InvalidPrivateKeyLength"
        /\ error.len = Len(KeyBody) \div 2
        /\ private_key_bytes = <<>>
        /\ stdout = <<>>

C6_Witness ==
    /\ pc = "failed"
    /\ error.kind = "InvalidPrivateKeyLength"
    /\ error.len = 33
    /\ HasPrefix0x(config.private_key)

\* C7: when the private key's text (after an optional "0x") is not well-formed
\* hex, the run fails at the key decoding with the hex-decoding error, which
\* is OddLength when the number of characters is odd, and never with the
\* key-length error, whatever the length of the text.
C7_MalformedHexIsFromHex ==
    (KeyDecodeDone /\ ~WellFormedHex(KeyBody)) =>
        /\ pc = "failed"
        /\ error.kind = "FromHex"
        /\ error.kind # "InvalidPrivateKeyLength"
        /\ Len(KeyBody) % 2 = 1 => error.detail = "OddLength"
        /\ Len(KeyBody) % 2 = 0 => error.detail = "InvalidHexCharacter"
        /\ private_key_bytes = <<>>
        /\ stdout = <<>>

C7_Witness ==
    /\ pc = "failed"
    /\ error.kind = "FromHex"
    /\ error.detail = "OddLength"
    /\ Len(KeyBody) = 63
    /\ \A i \in 1..63 : IsHexChar(KeyBody[i])

\* The 32 bytes are zero, or the group order or more.
InvalidScalar(b) ==
    \/ b = Zeros(32)
    \/ b = Secp256k1Order
    \/ BytesLess(Secp256k1Order, b)

\* C8: 32 key bytes that are zero or not below the curve order pass the key
\* decoding, and the run then fails with the Ecdsa error, returned and not a
\* panic, before anything is signed and with nothing written.
C8_InvalidScalarFailsAtSigning ==
    (KeyDecodeDone /\ IsHex64(KeyBody)
     /\ InvalidScalar(get_private_key_bytes(KeyBody).bytes)) =>
        /\ private_key_bytes = get_private_key_bytes(KeyBody).bytes
        /\ pc \in {"signing_key", "failed"}
        /\ pc = "failed" =>
              /\ error.kind = "Ecdsa"
              /\ error.kind \notin {"FromHex", "InvalidPrivateKeyLength"}
        /\ signature = NoSignature
        /\ stages = <<"Built", "Hashed">>
        /\ stdout = <<>>

C8_Witness ==
    /\ pc = "failed"
    /\ error.kind = "Ecdsa"
    /\ private_key_bytes = Secp256k1Order

\* The parameter file is there but does not give an intent.
IntentMalformed ==
    /\ argv.present
    /\ \/ argv.file.kind # "Object"
       \/ ~DeserializeParams(argv.file.obj).ok

\* C9: a malformed or unreadable intent ends the run with a returned error of
\* the configuration kind.
C9_IntentErrorsAreReturned ==
    IntentMalformed => (pc = "failed" /\ error.kind = "Config")

\* C10: an intent without "input", one with "" and one with "0x" give the same
\* empty call data: whichever of the three the file has, the parameters, the
\* bytes hashed, the digest and the output bytes of the run are those the
\* other two spellings give.
C10_EmptyCallDataSpellings ==
    (argv.present /\ argv.file.kind = "Object"
     /\ argv.file.obj.input \in EmptySpellings) =>
        \A sp \in EmptySpellings :
            LET alt == ParamsFromPath(
                           [kind |-> "Object",
                            obj |-> [argv.file.obj EXCEPT !.input = sp]])
                msg == BuildMessage(config, alt.val)
            IN  /\ alt.panic <=> pc = "panicked"
                /\ pc # "panicked" =>
                      /\ params = alt.val
                      /\ params.input = <<>>
                      /\ hashed # <<>> =>
                            /\ hashed = HashPreimage(msg)
                            /\ transaction_hash = MessageHash(msg)
                      /\ signed_transaction # <<>> =>
                            signed_transaction
                              = EncodeSigned(AssembleTransaction(msg, signature))

C10_Witness ==
    /\ pc = "done"
    /\ argv.file.obj.input = JString(<<"0", "x">>)
    /\ params.input = <<>>
    /\ signed_transaction # <<>>

\* The byte strings of the items of an RLP list's payload, in order (an
\* item that is itself a list is given by its payload).  Lengths are below
\* 256, so a long header holds one length byte.
RECURSIVE RlpItems(_, _)
RlpItems(p, i) ==
    IF i > Len(p) THEN <<>>
    ELSE LET b == p[i]
             \* the length of the item's header and of its content
             hdr == IF b < 128 THEN 0
                    ELSE IF b <= 183 THEN 1
                    ELSE IF b < 192 THEN 1 + (b - 183)
                    ELSE IF b <= 247 THEN 1
                    ELSE 1 + (b - 247)
             len == IF b < 128 THEN 1
                    ELSE IF b <= 183 THEN b - 128
                    ELSE IF b < 192 THEN p[i + 1]
                    ELSE IF b <= 247 THEN b - 192
                    ELSE p[i + 1]
         IN  <<SubSeq(p, i + hdr, i + hdr + len - 1)>>
             \o RlpItems(p, i + hdr + len)

\* The twelve items of the signed transaction's encoding.
SignedItems == RlpItems(ListPayload(Tail(signed_transaction)), 1)

\* C11: the recovery flag of the signed transaction is true exactly when the
\* recovery identifier of the signing call is odd (1 or 3 of 0..3), it stands
\* next to the r and s of that same call, and its encoding is the integer 1
\* (the byte 0x01) or the integer 0 (the empty string, byte 0x80).
C11_FlagIsLowestBit ==
    /\ signature # NoSignature =>
          /\ signature.recovery_id \in 0..3
          /\ signature
               = SignPrehashRecoverable(private_key_bytes, transaction_hash)
    /\ transaction # NoTransaction =>
          /\ transaction.odd_y_parity <=> signature.recovery_id \in {1, 3}
          /\ transaction.r = signature.r
          /\ transaction.s = signature.s
    /\ signed_transaction # <<>> =>
          /\ Len(SignedItems) = 12
          /\ SignedItems[10]
               = (IF signature.recovery_id \in {1, 3} THEN <<1>> ELSE <<>>)
          /\ PadLeft(SignedItems[11], 32) = signature.r
          /\ PadLeft(SignedItems[12], 32) = signature.s

C11_Witness ==
    /\ pc = "done"
    /\ signature.recovery_id = 3
    /\ transaction.odd_y_parity
    /\ SignedItems[10] = <<1>>

\* A number literal that denotes a non-negative integer below 2^256.
DenotesQuantity(tok) ==
    /\ tok.kind = "number"
    /\ ~tok.neg
    /\ Len(TokenBytes(tok)) <= WordLen

\* C12: deserialize_u256 of a JSON number that denotes a non-negative integer
\* below 2^256 is the U256 of exactly that integer, and a JSON number that
\* denotes no such integer is not turned into a Quantity.
C12_NumberKeepsItsValue ==
    (de_input.fn = "deserialize_u256" /\ de_input.tok.kind = "number") =>
        IF DenotesQuantity(de_input.tok)
        THEN /\ de_output.ok
             /\ de_output.val = PadLeft(TokenBytes(de_input.tok), WordLen)
        ELSE ~de_output.ok

\* The text given to a deserializer called on its own, after an optional
\* "0x".
DeBody == IF HasPrefix0x(de_input.tok.s)
          THEN SubSeq(de_input.tok.s, 3, Len(de_input.tok.s))
          ELSE de_input.tok.s

AllHex(s) == \A i \in 1..Len(s) : IsHexChar(s[i])

\* C13: deserialize_u256 of a string d or "0x" + d, d being 1 to 64 hex
\* digits, is the base-16 value of d (so the same for both: its 64 hex digits
\* are d after zeros); a string with a character that is no hex digit, and a
\* JSON value that is neither number nor string, gives an error.
C13_HexStringValue ==
    de_input.fn = "deserialize_u256" =>
        /\ (de_input.tok.kind = "string" /\ Len(DeBody) \in 1..64
            /\ AllHex(DeBody)) =>
              /\ de_output.ok
              /\ HexEncode(de_output.val)
                   = Rep("0", 64 - Len(DeBody)) \o ToLowerHex(DeBody)
        /\ (de_input.tok.kind = "string" /\ ~AllHex(DeBody)) => ~de_output.ok
        /\ de_input.tok.kind \notin {"number", "string"} => ~de_output.ok

C13_Witness ==
    /\ de_input.fn = "deserialize_u256"
    /\ de_input.tok.kind = "string"
    /\ de_input.tok.s = <<"0", "x", "F", "a", "1">>
    /\ de_output.ok
    /\ de_output.val = Zeros(30) \o <<15, 161>>

\* C14: deserialize_hex_bytes of the hex text of bytes B, with or without
\* "0x" and in any letter case, is B (the lower-case hex text of the result is
\* the text in lower case, two characters a byte); a text with an odd number
\* of hex characters, or with a character that is no hex digit, gives an error
\* and no bytes.
C14_HexBytesRoundTrip ==
    (de_input.fn = "deserialize_hex_bytes" /\ de_input.tok.kind = "string") =>
        /\ (AllHex(DeBody) /\ Len(DeBody) % 2 = 0) =>
              /\ de_output.ok
              /\ 2 * Len(de_output.val) = Len(DeBody)
              /\ HexEncode(de_output.val) = ToLowerHex(DeBody)
        /\ (~AllHex(DeBody) \/ Len(DeBody) % 2 = 1) =>
              /\ ~de_output.ok
              /\ de_output.val = <<>>

C14_Witness ==
    /\ de_input.fn = "deserialize_hex_bytes"
    /\ de_input.tok.s = <<"0", "x", "A", "b", "C", "d">>
    /\ de_output.ok
    /\ de_output.val = <<171, 205>>

QuantityPositions == {2, 3, 4, 5, 7, 11, 12}

QuantityAt(i) ==
    CASE i = 2 -> transaction.nonce
      [] i = 3 -> transaction.max_priority_fee_per_gas
      [] i = 4 -> transaction.max_fee_per_gas
      [] i = 5 -> transaction.gas_limit
      [] i = 7 -> transaction.value
      [] i = 11 -> transaction.r
      [] i = 12 -> transaction.s

\* C16: in the encoded transaction the nonce, the two fees, the gas limit, the
\* value, r and s are each a byte string of at most 32 bytes that does not
\* begin with a zero byte, is empty when the field is zero, and read as a
\* big-endian integer is the field.
C16_QuantitiesMinimal ==
    signed_transaction # <<>> =>
        /\ Len(SignedItems) = 12
        /\ \A i \in QuantityPositions :
            /\ Len(SignedItems[i]) <= WordLen
            /\ SignedItems[i] # <<>> => SignedItems[i][1] # 0
            /\ QuantityAt(i) = Zeros(WordLen) => SignedItems[i] = <<>>
            /\ PadLeft(SignedItems[i], WordLen) = QuantityAt(i)

C16_Witness ==
    /\ pc = "done"
    /\ transaction.r[1] = 0
    /\ Len(SignedItems[11]) < WordLen
    /\ transaction.value = Zeros(WordLen)
    /\ SignedItems[7] = <<>>
    /\ Len(SignedItems[5]) = 2

====
